---------------------------- MODULE Spec2Model ----------------------------
(***************************************************************************)
(* A model of the live trading engine of Systematic_trader_v3:             *)
(*   - the hot-plug scheduler of main.py (TradingEngine),                  *)
(*   - the per-symbol polling task and the order executor it drives        *)
(*     (execution/executor.py), with the risk gate (risk/manager.py) and   *)
(*     the trade ledger (core/database.py),                                *)
(*   - the event bus (core/events.py).                                     *)
(*                                                                         *)
(* The program runs on one asyncio event loop: a coroutine runs without    *)
(* interruption from one await that really suspends to the next.  Every    *)
(* action below is one such uninterrupted stretch; the value of pc[s]      *)
(* names the await at which the task of symbol s is suspended.             *)
(*                                                                         *)
(* Eight specifications share the variables:                               *)
(*   Spec       the engine: tasks, executor, ledger, hot-plug handlers;    *)
(*   SpecBus    the event bus alone, with abstract subscribers;            *)
(*   SpecTrade  the tasks and the executor without hot-plug, on an         *)
(*              exchange that fills several quantities;                    *)
(*   SpecRisk   the risk gate alone, its methods called with inputs drawn  *)
(*              from bounded sets;                                         *)
(*   SpecStrategy  the strategy pipeline alone;                            *)
(*   SpecPoll   the polling loop await by await (candle fetch, window,     *)
(*              pipeline, balance refresh as request and reply), with the  *)
(*              hot-plug handlers and the shutdown of the task group; the  *)
(*              executor is one step;                                      *)
(*   SpecCandle the polling loop of the boot tasks on an exchange with two  *)
(*              candles, with the history of the candles fetched and       *)
(*              processed;                                                 *)
(*   SpecStagger  the hot-plug handlers with the index of every task they   *)
(*              create.                                                    *)
(***************************************************************************)
EXTENDS Integers, Sequences, FiniteSets, TLC

(***************************************************************************)
(* Bounds of the model.                                                    *)
(***************************************************************************)
\* BUY signals are generated only while fewer than MaxTrades rows exist or
\* are being created: the ledger has at most MaxTrades rows.
MaxTrades == 2

\* publish() is called at most MaxPublish times (SpecBus).
MaxPublish == 3

\* RiskManager.update_balance is called at most MaxUpdates times (SpecRisk,
\* and the balance refreshes of the polling loop in SpecPoll and SpecCandle).
MaxUpdates == 2

\* calls of generate_signals (SpecStrategy)
MaxCalls == 2

(***************************************************************************)
(* Configuration and inputs.                                               *)
(***************************************************************************)
Symbols == {"A", "B"}

\* config.trading.symbols as loaded at boot; run_forever spawns one task each.
BootSymbols == {"A"}

\* MAX_ACTIVE_TRADES; the model runs with a limit of one symbol.
max_active_trades == 1

max_daily_loss_percent == 5

max_drawdown_percent == 15

\* OrderExecutor(max_retries = 3)
max_retries == 3

\* average fill prices the exchange may report
Prices == {1, 2}

\* filled quantity the uniform exchange reports for a market order
FillQuantity == 1

\* filled quantities the varied exchange reports (SpecTrade)
Quantities == {1, 2, 3}

\* USDT totals fetch_balance may report; the engine is initialised with the
\* larger one.
Balances == {80, 100}

InitialBalance == 100

\* Inputs of the risk gate under SpecRisk: the balance given to initialize(),
\* the totals given to update_balance() and the values of _daily_pnl.
StartBalances == {0, 1000}

Totals == {0, 900, 1000, 1200}

DailyPnls == {-60, -50, -40, 0, 40}

VARIABLES
    \* ---- TradingEngine (main.py)
    active_tasks,      \* keys of self._active_tasks
    storages,          \* keys of self._storages
    config_symbols,    \* config.trading.symbols
    handling,          \* the hot-plug handler the dispatch loop is awaiting
    pc,                \* per symbol: the await its polling task is suspended at
    \* ---- OrderExecutor (executor.py), one call per task at a time
    signal,            \* per symbol: type of the signal being executed
    attempt,           \* per symbol: loop variable of _place_order
    response,          \* per symbol: the exchange's answer to the create_order in flight
    order_status,      \* per symbol: Order.status of the placement
    trail,             \* per symbol: the create_order calls and the sleeps of the placement, in order
    exchange,          \* the exchange the engine trades on ("uniform", "varied" or "candles"); fixed in a behaviour
    \* ---- Database (database.py)
    ledger,            \* the trades table, in id order
    \* ---- PositionManager / RiskManager (manager.py)
    balance,           \* PositionManager._balance
    peak_balance,      \* RiskManager._peak_balance
    current_drawdown,  \* RiskManager._current_drawdown
    daily_pnl,         \* RiskManager._daily_pnl
    daily_start_balance, \* RiskManager._daily_start_balance
    totals,            \* history (SpecRisk): the totals update_balance was called with
    verdict,           \* history (SpecRisk): the last check_pre_trade call and what it returned
    risk_status,       \* history (SpecRisk): what the last get_risk_status call returned
    \* ---- the polling loop in detail (SpecPoll)
    last_kline_times,  \* TradingEngine._last_kline_times (0: no entry)
    latest,            \* history (SpecCandle), per symbol: the open time of the latest candle
                       \* of the last answer of get_klines (0: it raised or returned nothing)
    processed,         \* history (SpecCandle), per symbol: the candle _process_kline was last
                       \* called for (0: none)
    windows,           \* per symbol: the open times in KlineStorage._klines of its storage
    kline_store,       \* the klines table of the database: <<symbol, open_time>> rows
    account,           \* per symbol: the get_account_info reply its task holds
    fetch_seq,         \* history: the number of get_account_info calls the exchange answered
    snapshot_seq,      \* history: which of those answers the balance snapshot comes from
    lifecycle,         \* "running", "aborting" (task group), "disconnected", "stopped"
    task_index,        \* per symbol: the index its polling task was created with (SpecStagger)
    \* ---- StrategyManager (strategies/manager.py, strategies/base.py)
    enabled,           \* per registered strategy: BaseStrategy._enabled
    signal_count,      \* per registered strategy: BaseStrategy._signal_count
    gs_pc,             \* where generate_signals is: "idle", "loop", "returned"
    gs_todo,           \* the strategies the for loop has still to visit
    gs_signals,        \* the local list "signals" (the returned list at "returned")
    gs_enabled,        \* history: the strategies that were enabled at the call
    gs_invoked,        \* history: the generate_signal calls of this call and their outcome
    gs_count_before,   \* history: signal_count at the call
    gs_calls,          \* history: the number of generate_signals calls so far
    \* ---- history of the handled hot-plug events
    replayed,          \* the events replayed on a plain set
    replayed_ok,       \* the same, an ADD whose bootstrap failed left out
    \* ---- EventBus (events.py)
    put_tasks,         \* the tasks publish() created, in creation order
    event_queue,       \* self._event_queue
    bus_running,       \* self._running
    loop_pc,           \* where EventBus.start is
    cur_event,         \* the event being dispatched
    cb_index,          \* position of the for loop over the subscribers
    in_progress,       \* callback invocations started and not yet returned
    published,         \* history: the events in the order publish() was called
    invoked,           \* history: per handler, the events it was invoked with
    raised             \* history: the (handler, event) invocations that raised

strategy_vars == <<enabled, signal_count, gs_pc, gs_todo, gs_signals, gs_enabled,
                   gs_invoked, gs_count_before, gs_calls>>

candle_vars == <<latest, processed>>

poll_vars == <<last_kline_times, account, fetch_seq, snapshot_seq, lifecycle>>

engine_vars == <<active_tasks, storages, config_symbols, handling, pc, signal,
                 attempt, response, order_status, trail, exchange, ledger,
                 balance, peak_balance, current_drawdown, daily_pnl,
                 daily_start_balance, totals, verdict, risk_status, replayed, replayed_ok,
                 strategy_vars, poll_vars, candle_vars, windows, kline_store, task_index>>

bus_vars == <<put_tasks, event_queue, bus_running, loop_pc, cur_event, cb_index,
              in_progress, published, invoked, raised>>

vars == <<engine_vars, bus_vars>>

exec_vars == <<signal, attempt, response, order_status, trail>>

risk_vars == <<balance, peak_balance, current_drawdown, daily_pnl, daily_start_balance>>

\* what no action of the engine changes
other_vars == <<exchange, totals, verdict, risk_status, strategy_vars, poll_vars,
                candle_vars>>

hotplug_vars == <<active_tasks, storages, config_symbols, handling, replayed, replayed_ok,
                  windows, kline_store, task_index>>

\* The registered strategies, in registration order (the order of the dict
\* StrategyManager._strategies).
StrategyNames == <<"s1", "s2", "s3">>

Strategies == {StrategyNames[i] : i \in 1..Len(StrategyNames)}

\* open times of the candles the exchange has (0 stands for "no entry"): one
\* candle, or two on the exchange of SpecCandle
CandleTimes == IF exchange = "candles" THEN {1, 2} ELSE {1}

\* What one generate_signal call does: it raises, returns None, or returns a
\* Signal of the given type.
SignalOutcomes == {"raise", "None", "NONE", "BUY"}

(***************************************************************************)
(* The trade ledger (core/database.py).                                    *)
(***************************************************************************)
\* Trade(symbol, side='BUY', entry_price, quantity, status='OPEN') as _spot_buy
\* builds it; exit_price and pnl take the column defaults.
NewTrade(symbol, price, quantity) ==
    [symbol |-> symbol, status |-> "OPEN", entry_price |-> price,
     quantity |-> quantity, exit_price |-> 0, pnl |-> 0]

\* db.save_trade: INSERT, the new row gets the next id.
save_trade(trade) == Append(ledger, trade)

\* db.get_open_trades(symbol): ids of the rows of the symbol with status OPEN,
\* in id order (the ledger is indexed by id).
\* (variant: the query without "AND status = 'OPEN'")
MutGetOpenTrades(symbol) ==
    {i \in 1..Len(ledger) : ledger[i].symbol = symbol}

get_open_trades(symbol) ==
    {i \in 1..Len(ledger) : ledger[i].symbol = symbol /\ ledger[i].status = "OPEN"}

Min(a, b) == IF a <= b THEN a ELSE b

\* open_trades[0]
FirstOf(ids) == CHOOSE i \in ids : \A j \in ids : i <= j

\* db.update_trade(id, exit_price, exit_time, pnl, status='CLOSED')
update_trade(id, exit_price, pnl) ==
    [ledger EXCEPT ![id] = [@ EXCEPT !.status = "CLOSED",
                                     !.exit_price = exit_price,
                                     !.pnl = pnl]]

(***************************************************************************)
(* PositionManager and RiskManager (risk/manager.py).                      *)
(***************************************************************************)
\* PositionManager.get_position: the first OPEN row of the symbol, or none
\* (modelled as the set holding the row's id, or the empty set).
\* (variant: the first row of the symbol, whatever its status)
MutGetPosition(symbol) ==
    IF MutGetOpenTrades(symbol) # {} THEN {FirstOf(MutGetOpenTrades(symbol))} ELSE {}

get_position(symbol) ==
    IF get_open_trades(symbol) # {} THEN {FirstOf(get_open_trades(symbol))} ELSE {}

\* PositionManager.get_all_active_positions: the configured symbols whose
\* position has a quantity > 0.
get_all_active_positions ==
    {sym \in config_symbols :
        \E i \in get_position(sym) : ledger[i].quantity > 0}

\* RiskManager.check_pre_trade: "OK" or the reason of the first failing check.
\* "abs(self._daily_pnl) / self._daily_start_balance" has no guard: with a
\* negative daily pnl and a day-start balance of 0 the call raises
\* ZeroDivisionError.
\* (variant: the drawdown check comes first)
MutCheckPreTrade(symbol, side) ==
    IF current_drawdown >= max_drawdown_percent
    THEN "drawdown"
    ELSE IF daily_pnl < 0 /\ daily_start_balance = 0
    THEN "ZeroDivisionError"
    ELSE IF daily_pnl < 0 /\ ((0 - daily_pnl) * 100) \div daily_start_balance >= max_daily_loss_percent
    THEN "daily_loss"
    ELSE IF side = "BUY"
            /\ symbol \notin get_all_active_positions
            /\ Cardinality(get_all_active_positions) >= max_active_trades
    THEN "concurrency"
    ELSE "OK"

check_pre_trade(symbol, side) ==
    IF daily_pnl < 0 /\ daily_start_balance = 0
    THEN "ZeroDivisionError"
    ELSE IF daily_pnl < 0 /\ ((0 - daily_pnl) * 100) \div daily_start_balance >= max_daily_loss_percent
    THEN "daily_loss"
    ELSE IF current_drawdown >= max_drawdown_percent
    THEN "drawdown"
    ELSE IF side = "BUY"
            /\ symbol \notin get_all_active_positions
            /\ Cardinality(get_all_active_positions) >= max_active_trades
    THEN "concurrency"
    ELSE "OK"

Abs(x) == IF x < 0 THEN 0 - x ELSE x

\* RiskManager.get_risk_status: daily_loss = abs(pnl) / start_balance * 100 if
\* start_balance > 0 else 0.0, compared with max_daily_loss_percent * 0.8
\* (here: daily_loss * 10 >= max * 8, multiplied by start_balance).
DailyLossHigh ==
    /\ daily_start_balance > 0
    /\ Abs(daily_pnl) * 100 * 10 >= max_daily_loss_percent * 8 * daily_start_balance

\* RiskManager.get_risk_status: the RiskStatus it returns (level and can_trade)
get_risk_status ==
    IF DailyLossHigh \/ current_drawdown * 10 >= max_drawdown_percent * 8
    THEN [risk_level |-> "high", can_trade |-> FALSE]
    ELSE [risk_level |-> "low", can_trade |-> TRUE]

\* RiskManager.update_balance: the new peak
NewPeak(total) == IF total > peak_balance THEN total ELSE peak_balance

\* RiskManager.update_balance: the new drawdown percentage, computed after the
\* peak was raised (the integer part of the percentage).
\* (variant: computed from the peak as it was before the call)
MutNewDrawdown(total) ==
    IF peak_balance > 0
    THEN ((peak_balance - total) * 100) \div peak_balance
    ELSE current_drawdown

NewDrawdown(total) ==
    IF NewPeak(total) > 0
    THEN ((NewPeak(total) - total) * 100) \div NewPeak(total)
    ELSE current_drawdown

\* _update_balance (main.py): position_manager.update_balance(total, free) and
\* risk_manager.update_balance(total), one after the other without an await
\* that suspends.
ApplyBalance(total) ==
    /\ balance' = total
    /\ peak_balance' = NewPeak(total)
    /\ current_drawdown' = NewDrawdown(total)

(***************************************************************************)
(* OrderExecutor (execution/executor.py).                                  *)
(***************************************************************************)
NoResponse == [kind |-> "none", average |-> 0, filled |-> 0]

\* The exceptions create_order raises.  On the uniform exchange "error" stands
\* for whatever exception; the varied exchange raises for a transient reason
\* (network, timeout, rate limit: "error") or because it rejected the order
\* (bad symbol, insufficient funds, invalid parameters: "rejected").
ErrorKinds == IF exchange = "uniform" THEN {"error"} ELSE {"error", "rejected"}

\* The filled quantities create_order reports.
FilledQuantities == IF exchange = "uniform" THEN {FillQuantity} ELSE Quantities

\* The results create_order returns for an order it accepted whose fields
\* _place_order cannot read: 'filled' or 'average' is present and None, as for
\* a market order that is not matched yet, and float(None) raises TypeError.
\* The uniform exchange returns none.
UnreadableResults ==
    IF exchange = "uniform" THEN {}
    ELSE {[kind |-> "unreadable", average |-> 0, filled |-> 0]}

\* What a create_order call can come back with: an exception, or a result
\* with its average price, one of Prices, and its filled quantity, or a result
\* whose fields cannot be read.
ExchangeAnswers ==
    {[kind |-> k, average |-> 0, filled |-> 0] : k \in ErrorKinds}
      \cup {[kind |-> "filled", average |-> p, filled |-> q] : p \in Prices, q \in FilledQuantities}
      \cup UnreadableResults

\* The entries of trail.
CreateOrderCall == [op |-> "create_order", arg |-> 0]

Sleep(seconds) == [op |-> "sleep", arg |-> seconds]

\* _place_order: "except Exception" catches whatever create_order raised, and
\* "if attempt < self._max_retries - 1" decides between the sleep before the
\* next call and the end of the for loop.
\* (variant: one more round)
MutRetries(kind, n) == n < max_retries

Retries(kind, n) == n < max_retries - 1

\* asyncio.sleep(1.0 * (attempt + 1))
BackoffDelay(n) == 1 * (n + 1)

\* Where _spot_buy / _spot_sell go once _place_order has returned the order:
\* "if not order or order.status != FILLED: return None", else the ledger write.
\* (variant: the status of the returned order is not looked at)
MutAfterOrder(side, status) ==
    IF side = "BUY" THEN "save_trade" ELSE "close_trade"

AfterOrder(side, status) ==
    IF status # "FILLED" THEN "update_balance"
    ELSE IF side = "BUY" THEN "save_trade" ELSE "close_trade"

\* _spot_buy: "if not can_trade: return None"
\* (variant: the answer of the risk gate is not looked at)
MutCanTrade(reason) == TRUE

CanTrade(reason) == reason = "OK"

\* The tasks that are executing a BUY signal.
BuysInProgress ==
    {s \in Symbols : signal[s] = "BUY" /\ pc[s] \in {"check_pre_trade", "create_order", "backoff", "save_trade"}}

\* The task's locals are gone: the values a task starts an iteration with.
IdleExec(s) ==
    /\ signal' = [signal EXCEPT ![s] = "NONE"]
    /\ attempt' = [attempt EXCEPT ![s] = 0]
    /\ response' = [response EXCEPT ![s] = NoResponse]
    /\ order_status' = [order_status EXCEPT ![s] = "NONE"]
    /\ trail' = [trail EXCEPT ![s] = <<>>]

\* _place_order up to its first await: a new PENDING Order, attempt 0, the
\* create_order request is on its way and the exchange answers it.
IssueOrder(s) ==
    /\ \E r \in ExchangeAnswers : response' = [response EXCEPT ![s] = r]
    /\ attempt' = [attempt EXCEPT ![s] = 0]
    /\ order_status' = [order_status EXCEPT ![s] = "PENDING"]
    /\ trail' = [trail EXCEPT ![s] = <<CreateOrderCall>>]
    /\ pc' = [pc EXCEPT ![s] = "create_order"]

(***************************************************************************)
(* The polling task of one symbol (main.py, _kline_polling_task and        *)
(* _process_kline) and the execute_signal call it makes.                   *)
(***************************************************************************)
\* asyncio.sleep returns (the start-up sleep, the sleep to the next interval
\* boundary or the cool-down after an error) and get_klines is awaited.
PollWake(s) ==
    /\ pc[s] = "sleep"
    /\ pc' = [pc EXCEPT ![s] = "get_klines"]
    /\ UNCHANGED <<exec_vars, ledger, risk_vars, hotplug_vars, bus_vars, other_vars>>

\* get_klines returns.  No new candle (or an exception, or no signal from the
\* pipeline): back to sleep.  A BUY signal: _spot_buy awaits check_pre_trade.
\* A SELL signal: _spot_sell awaits get_position.
PollFetched(s) ==
    /\ pc[s] = "get_klines"
    /\ \/ /\ pc' = [pc EXCEPT ![s] = "sleep"]
          /\ UNCHANGED signal
       \/ /\ Len(ledger) + Cardinality(BuysInProgress) < MaxTrades
          /\ signal' = [signal EXCEPT ![s] = "BUY"]
          /\ pc' = [pc EXCEPT ![s] = "check_pre_trade"]
       \/ /\ signal' = [signal EXCEPT ![s] = "SELL"]
          /\ pc' = [pc EXCEPT ![s] = "get_position"]
    /\ UNCHANGED <<attempt, response, order_status, trail, ledger, risk_vars, hotplug_vars, bus_vars, other_vars>>

\* _spot_buy: check_pre_trade returns.  Rejected: the signal is dropped.
\* Allowed: _place_order sends the order.  It raised: _process_kline logs the
\* exception and the iteration is over.
SpotBuyChecked(s) ==
    /\ pc[s] = "check_pre_trade"
    /\ IF check_pre_trade(s, "BUY") = "ZeroDivisionError"
       THEN /\ pc' = [pc EXCEPT ![s] = "sleep"]
            /\ IdleExec(s)
       ELSE IF CanTrade(check_pre_trade(s, "BUY"))
       THEN IssueOrder(s) /\ UNCHANGED signal
       ELSE /\ pc' = [pc EXCEPT ![s] = "update_balance"]
            /\ UNCHANGED <<signal, attempt, response, order_status, trail>>
    /\ UNCHANGED <<ledger, risk_vars, hotplug_vars, bus_vars, other_vars>>

\* _spot_sell: get_position returns.  No position: the signal is dropped.
\* Otherwise _place_order sends the order for the position's quantity.
SpotSellPosition(s) ==
    /\ pc[s] = "get_position"
    /\ IF get_position(s) = {} \/ \A i \in get_position(s) : ledger[i].quantity <= 0
       THEN /\ pc' = [pc EXCEPT ![s] = "update_balance"]
            /\ UNCHANGED <<attempt, response, order_status, trail>>
       ELSE IssueOrder(s)
    /\ UNCHANGED <<signal, ledger, risk_vars, hotplug_vars, bus_vars, other_vars>>

\* _place_order: create_order returns a result (the order is FILLED) or raises
\* (sleep 1.0 * (attempt + 1) and try again, or FAILED after the last attempt).
\* The try block also holds the reading of the result: an exception raised by
\* float(result.get(...)) goes to the same except clause as one raised by
\* create_order.
OrderReturned(s) ==
    /\ pc[s] = "create_order"
    /\ IF response[s].kind = "filled"
       THEN /\ order_status' = [order_status EXCEPT ![s] = "FILLED"]
            /\ pc' = [pc EXCEPT ![s] = AfterOrder(signal[s], "FILLED")]
            /\ UNCHANGED <<attempt, trail>>
       ELSE IF Retries(response[s].kind, attempt[s])
       THEN /\ trail' = [trail EXCEPT ![s] = Append(@, Sleep(BackoffDelay(attempt[s])))]
            /\ attempt' = [attempt EXCEPT ![s] = @ + 1]
            /\ pc' = [pc EXCEPT ![s] = "backoff"]
            /\ UNCHANGED order_status
       ELSE /\ order_status' = [order_status EXCEPT ![s] = "FAILED"]
            /\ pc' = [pc EXCEPT ![s] = AfterOrder(signal[s], "FAILED")]
            /\ UNCHANGED <<attempt, trail>>
    /\ UNCHANGED <<signal, response, ledger, risk_vars, hotplug_vars, bus_vars, other_vars>>

\* _place_order: the backoff sleep returns and the next create_order is sent.
BackoffDone(s) ==
    /\ pc[s] = "backoff"
    /\ \E r \in ExchangeAnswers : response' = [response EXCEPT ![s] = r]
    /\ trail' = [trail EXCEPT ![s] = Append(@, CreateOrderCall)]
    /\ pc' = [pc EXCEPT ![s] = "create_order"]
    /\ UNCHANGED <<signal, attempt, order_status, ledger, risk_vars, hotplug_vars, bus_vars, other_vars>>

\* _spot_buy: db.save_trade inserts the OPEN row.
SaveTrade(s) ==
    /\ pc[s] = "save_trade"
    /\ ledger' = save_trade(NewTrade(s, response[s].average, response[s].filled))
    /\ pc' = [pc EXCEPT ![s] = "update_balance"]
    /\ UNCHANGED <<exec_vars, risk_vars, hotplug_vars, bus_vars, other_vars>>

\* _spot_sell: pnl = (order.avg_price - entry_price) * min(quantity, t['quantity'])
\* (variant: the price difference alone)
MutTradePnl(avg_price, entry_price, quantity, held) == avg_price - entry_price

TradePnl(avg_price, entry_price, quantity, held) ==
    (avg_price - entry_price) * Min(quantity, held)

\* _spot_sell: db.get_open_trades, then db.update_trade closes open_trades[0].
\* The quantity sold is the signal's, which the strategies set to the quantity
\* of the position: the quantity of the same row.
CloseTrade(s) ==
    /\ pc[s] = "close_trade"
    /\ IF get_open_trades(s) # {}
       THEN LET id == FirstOf(get_open_trades(s))
                t == ledger[id]
                quantity == t.quantity
            IN ledger' = update_trade(id, response[s].average,
                            TradePnl(response[s].average, t.entry_price, quantity, t.quantity))
       ELSE UNCHANGED ledger
    /\ pc' = [pc EXCEPT ![s] = "update_balance"]
    /\ UNCHANGED <<exec_vars, risk_vars, hotplug_vars, bus_vars, other_vars>>

\* _process_kline: "if signals: await self._update_balance()".  get_account_info
\* returns a total, or raises and the error is logged; the iteration ends.
UpdateBalance(s) ==
    /\ pc[s] = "update_balance"
    /\ \/ \E total \in Balances : ApplyBalance(total)
       \/ UNCHANGED <<balance, peak_balance, current_drawdown>>
    /\ pc' = [pc EXCEPT ![s] = "sleep"]
    /\ IdleExec(s)
    /\ UNCHANGED <<ledger, daily_pnl, daily_start_balance, hotplug_vars, bus_vars, other_vars>>

(***************************************************************************)
(* Hot-plug (main.py, _handle_add_symbol and _handle_remove_symbol).  The  *)
(* dispatch loop awaits one handler at a time: an event is taken up only   *)
(* while no handler is in progress.                                        *)
(***************************************************************************)
Idle == [type |-> "NONE", symbol |-> "-"]

NoVerdict == [symbol |-> "-", side |-> "-", reason |-> "-"]

NoStatus == [risk_level |-> "-", can_trade |-> FALSE]

NoAccount == [seq |-> 0, total |-> 0]

\* task.cancel(): the CancelledError ends the task at the await it is at.
\* (variant: every task is cancelled)
MutCancel(tasks_pc, s) == [o \in Symbols |-> "none"]

Cancel(tasks_pc, s) == [tasks_pc EXCEPT ![s] = "none"]

\* The rows of the klines table of the symbol: what KlineStorage.initialize
\* loads.
Cached(s) == {t \in CandleTimes : <<s, t>> \in kline_store}

\* What get_klines(limit=500) returns at a bootstrap: nothing on the uniform
\* exchange, nothing or the candles so far on the varied one.
InitialKlines == IF exchange = "uniform" THEN {{}} ELSE {{}, CandleTimes}

\* self._active_tasks.pop(symbol)
\* (variant: the task is looked up and cancelled, its key stays)
MutPopTask(tasks, s) == tasks

PopTask(tasks, s) == tasks \ {s}

\* self._tg.create_task(self._kline_polling_task(...)); the task is registered
\* and starts in its first sleep.
Spawn(s) ==
    /\ active_tasks' = active_tasks \cup {s}
    /\ pc' = [pc EXCEPT ![s] = "sleep"]

\* _handle_add_symbol: "if symbol in self._active_tasks: return"
\* (variant: the test is left out)
MutAlreadyActive(s) == FALSE

AlreadyActive(s) == s \in active_tasks

\* _handle_add_symbol up to its first await.  Already active: return.  Else the
\* symbol is appended to the configured list; a symbol that has a storage needs
\* no bootstrap and its task is spawned at once, otherwise the storage is
\* created and the handler awaits the bootstrap (_init_symbol_storage).
HandleAddSymbol(s) ==
    /\ handling = Idle
    /\ replayed' = replayed \cup {s}
    /\ IF AlreadyActive(s)
       THEN /\ replayed_ok' = replayed_ok \cup {s}
            /\ UNCHANGED <<active_tasks, storages, config_symbols, handling, pc, windows>>
       ELSE /\ config_symbols' = config_symbols \cup {s}
            /\ IF s \in storages
               THEN /\ Spawn(s)
                    /\ replayed_ok' = replayed_ok \cup {s}
                    /\ UNCHANGED <<storages, handling, windows>>
               ELSE /\ storages' = storages \cup {s}
                    /\ windows' = [windows EXCEPT ![s] = {}]
                    /\ handling' = [type |-> "ADD_SYMBOL", symbol |-> s]
                    /\ UNCHANGED <<active_tasks, pc, replayed_ok>>
    /\ UNCHANGED <<exec_vars, ledger, risk_vars, bus_vars, other_vars, kline_store>>

\* _handle_add_symbol: the bootstrap returns (initialize has loaded the cached
\* rows, _fetch_initial_klines has added and saved the candles get_klines
\* returned) and the task is spawned, or it raises (KlineStorage.initialize
\* failed, or get_klines after it) and the handler ends with the exception,
\* which the dispatch loop logs.
AddSymbolBootstrapped(s) ==
    /\ handling = [type |-> "ADD_SYMBOL", symbol |-> s]
    /\ \/ /\ Spawn(s)
          /\ replayed_ok' = replayed_ok \cup {s}
          /\ \E klines \in InitialKlines :
                /\ windows' = [windows EXCEPT ![s] = Cached(s) \cup klines]
                /\ kline_store' = kline_store \cup {<<s, t>> : t \in klines}
       \/ /\ \E loaded \in {{}, Cached(s)} : windows' = [windows EXCEPT ![s] = loaded]
          /\ UNCHANGED <<active_tasks, pc, replayed_ok, kline_store>>
    /\ handling' = Idle
    /\ UNCHANGED <<storages, config_symbols, replayed, exec_vars, ledger, risk_vars, bus_vars, other_vars>>

\* _handle_remove_symbol (it has no await).  Not active: return.  Else the task
\* is popped and cancelled: the CancelledError is thrown into it at the await
\* it is suspended at, whichever that is, and the task ends.  The symbol
\* leaves the configured list and its storage (with the window) is deleted;
\* _last_kline_times is left as it is.
HandleRemoveSymbol(s) ==
    /\ handling = Idle
    /\ replayed' = replayed \ {s}
    /\ replayed_ok' = replayed_ok \ {s}
    /\ IF s \notin active_tasks
       THEN UNCHANGED <<active_tasks, storages, config_symbols, pc, exec_vars, windows>>
       ELSE /\ active_tasks' = PopTask(active_tasks, s)
            /\ pc' = Cancel(pc, s)
            /\ IdleExec(s)
            /\ config_symbols' = config_symbols \ {s}
            /\ storages' = storages \ {s}
            /\ windows' = [windows EXCEPT ![s] = {}]
    /\ UNCHANGED <<handling, ledger, risk_vars, bus_vars, other_vars, kline_store>>

(***************************************************************************)
(* EventBus (core/events.py).                                              *)
(***************************************************************************)
EventTypes == {"ADD_SYMBOL", "REMOVE_SYMBOL", "SYSTEM_START"}

\* self._subscribers after the subscribe() calls: the engine's two handlers
\* (main.py, start) and, to make the loop over the subscribers of one type
\* run more than once, a plain function subscribed to ADD_SYMBOL after the
\* engine's handler.  SYSTEM_START is published and has no subscriber.
Subscribers(event_type) ==
    CASE event_type = "ADD_SYMBOL" -> <<"handle_add_symbol", "add_listener">>
      [] event_type = "REMOVE_SYMBOL" -> <<"handle_remove_symbol">>
      [] OTHER -> <<>>

Handlers == {"handle_add_symbol", "add_listener", "handle_remove_symbol"}

HandlerType(h) == IF h = "handle_remove_symbol" THEN "REMOVE_SYMBOL" ELSE "ADD_SYMBOL"

\* asyncio.iscoroutinefunction(callback)
IsCoroutineFunction(h) == h \in {"handle_add_symbol", "handle_remove_symbol"}

NoEvent == [event_type |-> "NONE", n |-> 0]

\* self._event_queue.get(): the oldest event of the queue
\* (variant: a LIFO queue, the newest event)
MutQueueGet(q) == q[Len(q)]

QueueGet(q) == Head(q)

\* the queue without the event QueueGet took
QueueRest(q) ==
    LET i == CHOOSE j \in 1..Len(q) : q[j] = QueueGet(q)
    IN SubSeq(q, 1, i - 1) \o SubSeq(q, i + 1, Len(q))

\* "await callback(event)": the loop goes on only when the coroutine is done.
\* (variant: the coroutine is started as a task and not awaited)
MutAwaitsCallback(h) == FALSE

AwaitsCallback(h) == TRUE

\* "while self._running": the loop waits for the next event or returns.
\* (variant: "while True")
MutLoopCheck == "wait"

LoopCheck == IF bus_running THEN "wait" ELSE "stopped"

\* Where the loop is after the callback at position index of n_subs has ended
\* with the given outcome: the try/except is inside the for loop, so an
\* exception is logged and the for loop goes on like after a return.
\* (variant: the try/except around the for loop, an exception ends the event)
MutAfterCallback(outcome, index, n_subs) ==
    IF outcome = "raise" THEN <<LoopCheck, 0>>
    ELSE IF index < n_subs THEN <<"dispatch", index + 1>> ELSE <<LoopCheck, 0>>

AfterCallback(outcome, index, n_subs) ==
    IF index < n_subs THEN <<"dispatch", index + 1>> ELSE <<LoopCheck, 0>>

Outcomes == {"return", "raise"}

\* publish(event): asyncio.create_task(self._event_queue.put(event)).  The
\* event loop starts tasks in the order they were created.
Publish(event_type) ==
    /\ Len(published) < MaxPublish
    /\ LET event == [event_type |-> event_type, n |-> Len(published) + 1]
       IN /\ put_tasks' = Append(put_tasks, event)
          /\ published' = Append(published, event)
    /\ UNCHANGED <<event_queue, bus_running, loop_pc, cur_event, cb_index,
                   in_progress, invoked, raised, engine_vars>>

\* The oldest put task runs: the queue is unbounded, put() does not block.
RunPutTask ==
    /\ put_tasks # <<>>
    /\ event_queue' = Append(event_queue, Head(put_tasks))
    /\ put_tasks' = Tail(put_tasks)
    /\ UNCHANGED <<bus_running, loop_pc, cur_event, cb_index, in_progress,
                   published, invoked, raised, engine_vars>>

\* start(): wait_for(self._event_queue.get(), 1.0) returns an event.
LoopGet ==
    /\ loop_pc = "wait"
    /\ event_queue # <<>>
    /\ cur_event' = QueueGet(event_queue)
    /\ event_queue' = QueueRest(event_queue)
    /\ IF Subscribers(QueueGet(event_queue).event_type) # <<>>
       THEN loop_pc' = "dispatch" /\ cb_index' = 1
       ELSE loop_pc' = LoopCheck /\ cb_index' = 0
    /\ UNCHANGED <<put_tasks, bus_running, in_progress, published, invoked,
                   raised, engine_vars>>

\* start(): the wait times out on an empty queue; "continue".
LoopTimeout ==
    /\ loop_pc = "wait"
    /\ event_queue = <<>>
    /\ loop_pc' = LoopCheck
    /\ UNCHANGED <<put_tasks, event_queue, bus_running, cur_event, cb_index,
                   in_progress, published, invoked, raised, engine_vars>>

\* The handler the for loop is at.
CurrentCallback == Subscribers(cur_event.event_type)[cb_index]

LoopAdvance(outcome) ==
    LET next == AfterCallback(outcome, cb_index, Len(Subscribers(cur_event.event_type)))
    IN loop_pc' = next[1] /\ cb_index' = next[2]

\* start(): a plain function is called; it returns or raises.
CallbackSync(outcome) ==
    /\ loop_pc = "dispatch"
    /\ ~IsCoroutineFunction(CurrentCallback)
    /\ invoked' = [invoked EXCEPT ![CurrentCallback] = Append(@, cur_event)]
    /\ raised' = IF outcome = "raise"
                 THEN raised \cup {[handler |-> CurrentCallback, n |-> cur_event.n]}
                 ELSE raised
    /\ LoopAdvance(outcome)
    /\ UNCHANGED <<put_tasks, event_queue, bus_running, cur_event, in_progress,
                   published, engine_vars>>

\* start(): a coroutine function is called and awaited; the coroutine runs up
\* to its first suspension.
CallbackStart ==
    /\ loop_pc = "dispatch"
    /\ IsCoroutineFunction(CurrentCallback)
    /\ invoked' = [invoked EXCEPT ![CurrentCallback] = Append(@, cur_event)]
    /\ in_progress' = in_progress \cup {[handler |-> CurrentCallback, n |-> cur_event.n]}
    /\ IF AwaitsCallback(CurrentCallback)
       THEN loop_pc' = "await_callback" /\ UNCHANGED cb_index
       ELSE LoopAdvance("return")
    /\ UNCHANGED <<put_tasks, event_queue, bus_running, cur_event, published,
                   raised, engine_vars>>

\* A coroutine in progress ends, by returning or by raising; the loop that
\* awaits it goes on.
CallbackEnd(outcome) ==
    \E inv \in in_progress :
        /\ in_progress' = in_progress \ {inv}
        /\ raised' = IF outcome = "raise" THEN raised \cup {inv} ELSE raised
        /\ IF loop_pc = "await_callback" /\ inv.n = cur_event.n /\ inv.handler = CurrentCallback
           THEN LoopAdvance(outcome)
           ELSE UNCHANGED <<loop_pc, cb_index>>
        /\ UNCHANGED <<put_tasks, event_queue, bus_running, cur_event, published,
                       invoked, engine_vars>>

\* stop()
Stop ==
    /\ bus_running
    /\ bus_running' = FALSE
    /\ UNCHANGED <<put_tasks, event_queue, loop_pc, cur_event, cb_index,
                   in_progress, published, invoked, raised, engine_vars>>

(***************************************************************************)
(* The risk gate alone (risk/manager.py): its methods called directly,     *)
(* with inputs drawn from bounded sets (SpecRisk).                         *)
(***************************************************************************)
\* The balance refresh with a given total; the total is recorded.
RiskUpdateBalance(total) ==
    /\ Len(totals) < MaxUpdates
    /\ ApplyBalance(total)
    /\ totals' = Append(totals, total)
    /\ UNCHANGED <<active_tasks, storages, config_symbols, handling, pc, exec_vars,
                   exchange, ledger, daily_pnl, daily_start_balance, verdict,
                   risk_status, replayed, replayed_ok, bus_vars, strategy_vars, poll_vars,
                   windows, kline_store, task_index, candle_vars>>

\* check_pre_trade(symbol, side, ...) is called; what it returns is recorded.
RiskCheckPreTrade(symbol, side) ==
    /\ verdict' = [symbol |-> symbol, side |-> side, reason |-> check_pre_trade(symbol, side)]
    /\ UNCHANGED <<active_tasks, storages, config_symbols, handling, pc, exec_vars,
                   exchange, ledger, risk_vars, totals, risk_status, replayed,
                   replayed_ok, bus_vars, strategy_vars, poll_vars, windows,
                   kline_store, task_index, candle_vars>>

\* get_risk_status() is called; what it returns is recorded.
RiskGetRiskStatus ==
    /\ risk_status' = get_risk_status
    /\ UNCHANGED <<active_tasks, storages, config_symbols, handling, pc, exec_vars,
                   exchange, ledger, risk_vars, totals, verdict, replayed,
                   replayed_ok, bus_vars, strategy_vars, poll_vars, windows,
                   kline_store, task_index, candle_vars>>

(***************************************************************************)
(* StrategyManager (strategies/manager.py) and BaseStrategy (base.py).     *)
(* No generate_signal of the repository has a suspension point, so a call  *)
(* of generate_signals runs without another task in between.               *)
(***************************************************************************)
\* BaseStrategy.validate_signal, with the "if signal" before it:
\* signal and signal.signal_type != SignalType.NONE
\* (variant: only the "if signal" test)
MutValidateSignal(outcome) == outcome # "None"

validate_signal(outcome) == outcome # "None" /\ outcome # "NONE"

\* get_enabled_strategies: the enabled strategies in registration order
get_enabled_strategies == SelectSeq(StrategyNames, LAMBDA n : enabled[n])

(***************************************************************************)
(* The polling loop await by await (main.py, _kline_polling_task,          *)
(* _process_kline, _update_balance) and the shutdown (run_forever, main).  *)
(* trail[s] holds what the iteration logged: the exception and the         *)
(* cool-down sleep after it.                                               *)
(***************************************************************************)
\* what none of the actions below changes
poll_frame == <<active_tasks, storages, config_symbols, handling, replayed, replayed_ok,
                attempt, response, daily_pnl, daily_start_balance, exchange, totals,
                verdict, risk_status, strategy_vars, bus_vars, task_index>>

\* "await asyncio.sleep(10)" of the except branch of the loop
CoolDown == 10

\* an entry of trail: logger.error after the named call raised
Raised(call) == [op |-> "raised", arg |-> call]

\* Where an exception raised by the named call leaves the task: get_klines
\* and add_klines are under the try of the loop only, whose except branch
\* sleeps CoolDown; the calls of _process_kline are under its own try and
\* get_account_info under the one of _update_balance, which log and return,
\* so that the loop goes on to its next iteration.
\* (variant: no except branch, the exception ends the task)
MutOnException(call) == "none"

OnException(call) ==
    IF call \in {"get_klines", "add_klines"} THEN "cooldown" ELSE "sleep"

\* The task of s after the named call raised.
Raise(s, call) ==
    /\ pc' = [pc EXCEPT ![s] = OnException(call)]
    /\ trail' = [trail EXCEPT ![s] =
                    IF OnException(call) = "cooldown"
                    THEN <<Raised(call), Sleep(CoolDown)>>
                    ELSE <<Raised(call)>>]

\* The sleep to the next interval boundary returns (or the start-up sleep)
\* and get_klines is awaited; the locals of the last iteration are gone.
SleepDone(s) ==
    /\ lifecycle = "running"
    /\ pc[s] = "sleep"
    /\ pc' = [pc EXCEPT ![s] = "get_klines"]
    /\ IdleExec(s)
    /\ UNCHANGED <<poll_frame, poll_vars, windows, kline_store, ledger, balance,
                   peak_balance, current_drawdown>>

\* The cool-down sleep returns: the while loop starts its next iteration with
\* the sleep to the interval boundary.
CooldownDone(s) ==
    /\ lifecycle = "running"
    /\ pc[s] = "cooldown"
    /\ pc' = [pc EXCEPT ![s] = "sleep"]
    /\ UNCHANGED <<poll_frame, poll_vars, windows, kline_store, ledger, balance,
                   peak_balance, current_drawdown, signal, order_status, trail>>

\* "if self._last_kline_times.get(symbol) != kline_time"
\* (variant: the comparison with the last-seen timestamp is left out)
MutIsNewCandle(last_seen, kline_time) == TRUE

IsNewCandle(last_seen, kline_time) == last_seen # kline_time

\* get_klines returns.  It raised: cool-down.  Nothing, or the candle already
\* seen: next iteration.  A new candle: _last_kline_times is set and
\* add_klines is called, which extends _klines and awaits db.save_klines if
\* the storage does not have the candle, and returns at once if it has, so
\* that _process_kline is next.  kline_time is the open time of the latest
\* candle of the answer, 0 when get_klines raises or returns nothing.
KlinesAnswered(s, kline_time) ==
    /\ lifecycle = "running"
    /\ pc[s] = "get_klines"
    /\ IF kline_time = 0
       THEN \/ /\ Raise(s, "get_klines")
               /\ UNCHANGED <<last_kline_times, windows>>
            \/ /\ pc' = [pc EXCEPT ![s] = "sleep"]
               /\ UNCHANGED <<last_kline_times, windows, trail>>
       ELSE IF IsNewCandle(last_kline_times[s], kline_time)
       THEN /\ last_kline_times' = [last_kline_times EXCEPT ![s] = kline_time]
            /\ windows' = [windows EXCEPT ![s] = @ \cup {kline_time}]
            /\ pc' = [pc EXCEPT ![s] =
                         IF kline_time \in windows[s] THEN "pipeline" ELSE "save_klines"]
            /\ UNCHANGED trail
       ELSE /\ pc' = [pc EXCEPT ![s] = "sleep"]
            /\ UNCHANGED <<last_kline_times, windows, trail>>
    /\ UNCHANGED <<poll_frame, account, fetch_seq, snapshot_seq, lifecycle, kline_store,
                   ledger, balance, peak_balance, current_drawdown, signal, order_status>>

\* get_klines returns, with whatever the exchange answers.
KlinesReturned(s) == \E kline_time \in CandleTimes \cup {0} : KlinesAnswered(s, kline_time)

\* add_klines: db.save_klines returns and _process_kline starts, or it raised
\* and the exception reaches the except branch of the loop.
KlinesSaved(s) ==
    /\ lifecycle = "running"
    /\ pc[s] = "save_klines"
    /\ \/ /\ kline_store' = kline_store \cup {<<s, last_kline_times[s]>>}
          /\ pc' = [pc EXCEPT ![s] = "pipeline"]
          /\ UNCHANGED trail
       \/ /\ Raise(s, "add_klines")
          /\ UNCHANGED kline_store
    /\ UNCHANGED <<poll_frame, poll_vars, windows, ledger, balance, peak_balance,
                   current_drawdown, signal, order_status>>

\* The tasks whose iteration has signals and has not called get_account_info yet.
SignalsInProgress == {o \in Symbols : pc[o] \in {"execute_signal", "update_balance"}}

\* _process_kline up to the signals: the indicators, get_position and
\* generate_signals return.  An empty frame or no signal: the iteration is
\* over.  A raised exception is logged by _process_kline and the iteration is
\* over.  A BUY signal: execute_signal is awaited; signals are generated only
\* while fewer than MaxUpdates balance refreshes were made or are due and
\* fewer than MaxTrades rows exist or may be created.
PipelineDone(s) ==
    /\ lifecycle = "running"
    /\ pc[s] = "pipeline"
    /\ \/ /\ pc' = [pc EXCEPT ![s] = "sleep"]
          /\ UNCHANGED <<signal, trail>>
       \/ /\ Raise(s, "pipeline")
          /\ UNCHANGED signal
       \/ /\ fetch_seq + Cardinality(SignalsInProgress) < MaxUpdates
          /\ Len(ledger) + Cardinality(SignalsInProgress) < MaxTrades
          /\ signal' = [signal EXCEPT ![s] = "BUY"]
          /\ pc' = [pc EXCEPT ![s] = "execute_signal"]
          /\ UNCHANGED trail
    /\ UNCHANGED <<poll_frame, poll_vars, windows, kline_store, ledger, balance,
                   peak_balance, current_drawdown, order_status>>

\* execute_signal of a BUY signal returns, taken as one step.  The order was
\* FILLED and save_trade wrote the OPEN row; or it was FILLED and save_trade
\* raised; or the risk gate rejected the signal (no order) or the order ended
\* FAILED; or a call before the order raised (check_pre_trade).  After a
\* return _update_balance calls get_account_info; an exception is logged by
\* _process_kline and the iteration is over.
BuyExecuted(s) ==
    /\ lifecycle = "running"
    /\ pc[s] = "execute_signal"
    /\ \/ /\ \E price \in Prices : ledger' = save_trade(NewTrade(s, price, FillQuantity))
          /\ order_status' = [order_status EXCEPT ![s] = "FILLED"]
          /\ pc' = [pc EXCEPT ![s] = "update_balance"]
          /\ UNCHANGED trail
       \/ /\ order_status' = [order_status EXCEPT ![s] = "FILLED"]
          /\ Raise(s, "execute_signal")
          /\ UNCHANGED ledger
       \/ /\ \E status \in {"NONE", "FAILED"} :
                order_status' = [order_status EXCEPT ![s] = status]
          /\ pc' = [pc EXCEPT ![s] = "update_balance"]
          /\ UNCHANGED <<ledger, trail>>
       \/ /\ Raise(s, "execute_signal")
          /\ UNCHANGED <<ledger, order_status>>
    /\ UNCHANGED <<poll_frame, poll_vars, windows, kline_store, balance, peak_balance,
                   current_drawdown, signal>>

\* _update_balance: the exchange answers the get_account_info request of the
\* task with the total of that moment (the reply is on its way to the task),
\* or the call raises, which _update_balance logs: the iteration is over.
AccountInfoServed(s) ==
    /\ lifecycle = "running"
    /\ pc[s] = "update_balance"
    /\ \/ /\ \E total \in Balances :
                account' = [account EXCEPT ![s] = [seq |-> fetch_seq + 1, total |-> total]]
          /\ fetch_seq' = fetch_seq + 1
          /\ pc' = [pc EXCEPT ![s] = "account_info"]
          /\ UNCHANGED trail
       \/ /\ Raise(s, "get_account_info")
          /\ UNCHANGED <<account, fetch_seq>>
    /\ UNCHANGED <<poll_frame, last_kline_times, snapshot_seq, lifecycle, windows,
                   kline_store, ledger, balance, peak_balance, current_drawdown, signal,
                   order_status>>

\* _update_balance: the task resumes with the reply; position_manager and
\* risk_manager take the total (no await in between); the iteration is over.
BalanceApplied(s) ==
    /\ lifecycle = "running"
    /\ pc[s] = "account_info"
    /\ ApplyBalance(account[s].total)
    /\ snapshot_seq' = account[s].seq
    /\ account' = [account EXCEPT ![s] = NoAccount]
    /\ pc' = [pc EXCEPT ![s] = "sleep"]
    /\ UNCHANGED <<poll_frame, last_kline_times, fetch_seq, lifecycle, windows, kline_store,
                   ledger, signal, order_status, trail>>

\* TaskGroup.__aexit__: what the group waits for before run_forever returns
\* (here: the polling tasks).
\* (variant: the group does not wait)
MutTasksDone == TRUE

TasksDone == \A s \in Symbols : pc[s] = "none"

\* The main task is cancelled (SIGINT) or a task of the group failed: the
\* TaskGroup aborts, task.cancel() is called on every task of the group.
GroupAbort ==
    /\ lifecycle = "running"
    /\ lifecycle' = "aborting"
    /\ UNCHANGED <<poll_frame, last_kline_times, account, fetch_seq, snapshot_seq,
                   candle_vars, windows, kline_store, ledger, balance, peak_balance,
                   current_drawdown, pc, signal, order_status, trail>>

\* A cancelled polling task is resumed: the CancelledError ends it.
TaskCancelled(s) ==
    /\ lifecycle = "aborting"
    /\ pc[s] # "none"
    /\ pc' = Cancel(pc, s)
    /\ UNCHANGED <<poll_frame, poll_vars, candle_vars, windows, kline_store, ledger, balance,
                   peak_balance, current_drawdown, signal, order_status, trail>>

\* __aexit__ has waited for the tasks, run_forever returns, main's finally
\* awaits engine.stop(): crypto_data_source.disconnect() ...
Disconnect ==
    /\ lifecycle = "aborting"
    /\ TasksDone
    /\ lifecycle' = "disconnected"
    /\ UNCHANGED <<poll_frame, last_kline_times, account, fetch_seq, snapshot_seq,
                   candle_vars, windows, kline_store, ledger, balance, peak_balance,
                   current_drawdown, pc, signal, order_status, trail>>

\* ... and db.close().
DbClose ==
    /\ lifecycle = "disconnected"
    /\ lifecycle' = "stopped"
    /\ UNCHANGED <<poll_frame, last_kline_times, account, fetch_seq, snapshot_seq,
                   candle_vars, windows, kline_store, ledger, balance, peak_balance,
                   current_drawdown, pc, signal, order_status, trail>>

\* TradingEngine.__init__ and start(): no candle seen, the storages of the
\* boot symbols hold what their bootstrap fetched and saved (the database is
\* new), the balance snapshot is the one start() fetched.
InitPolling ==
    /\ last_kline_times = [s \in Symbols |-> 0]
    /\ latest = [s \in Symbols |-> 0]
    /\ processed = [s \in Symbols |-> 0]
    /\ \E klines \in InitialKlines :
          /\ windows = [s \in Symbols |-> IF s \in BootSymbols THEN klines ELSE {}]
          /\ kline_store = {<<s, t>> : s \in BootSymbols, t \in klines}
    /\ account = [s \in Symbols |-> NoAccount]
    /\ fetch_seq = 0
    /\ snapshot_seq = 0
    /\ lifecycle = "running"
    /\ task_index = [s \in Symbols |-> 0]

\* register_strategy: __init__ sets _enabled and the counters.
InitStrategies ==
    /\ enabled = [n \in Strategies |-> TRUE]
    /\ signal_count = [n \in Strategies |-> 0]
    /\ gs_pc = "idle"
    /\ gs_todo = <<>>
    /\ gs_signals = <<>>
    /\ gs_enabled = {}
    /\ gs_invoked = <<>>
    /\ gs_count_before = [n \in Strategies |-> 0]
    /\ gs_calls = 0

\* enable_strategy(name) / disable_strategy(name) of a registered strategy
SetStrategyEnabled(name, flag) ==
    /\ gs_pc # "loop"
    /\ enabled[name] # flag
    /\ enabled' = [enabled EXCEPT ![name] = flag]
    /\ UNCHANGED <<signal_count, gs_pc, gs_todo, gs_signals, gs_enabled, gs_invoked,
                   gs_count_before, gs_calls>>

\* generate_signals is called: signals = [], the for loop starts over the
\* list get_enabled_strategies() returned.
GenerateSignalsCall ==
    /\ gs_pc # "loop"
    /\ gs_calls < MaxCalls
    /\ gs_pc' = "loop"
    /\ gs_todo' = get_enabled_strategies
    /\ gs_signals' = <<>>
    /\ gs_enabled' = {n \in Strategies : enabled[n]}
    /\ gs_invoked' = <<>>
    /\ gs_count_before' = signal_count
    /\ gs_calls' = gs_calls + 1
    /\ UNCHANGED <<enabled, signal_count>>

\* One iteration of the for loop: generate_signal of the strategy is awaited;
\* a valid signal is appended and update_stats counts it; an exception is
\* logged by the except inside the loop.
StrategyStep(outcome) ==
    /\ gs_pc = "loop"
    /\ gs_todo # <<>>
    /\ gs_invoked' = Append(gs_invoked, [strategy |-> Head(gs_todo), outcome |-> outcome])
    /\ gs_todo' = Tail(gs_todo)
    /\ IF outcome # "raise" /\ validate_signal(outcome)
       THEN /\ gs_signals' = Append(gs_signals, [strategy_name |-> Head(gs_todo),
                                                  signal_type |-> outcome])
            /\ signal_count' = [signal_count EXCEPT ![Head(gs_todo)] = @ + 1]
       ELSE UNCHANGED <<gs_signals, signal_count>>
    /\ UNCHANGED <<enabled, gs_pc, gs_enabled, gs_count_before, gs_calls>>

\* The for loop is over: return signals.
GenerateSignalsReturn ==
    /\ gs_pc = "loop"
    /\ gs_todo = <<>>
    /\ gs_pc' = "returned"
    /\ UNCHANGED <<enabled, signal_count, gs_todo, gs_signals, gs_enabled, gs_invoked,
                   gs_count_before, gs_calls>>

\* what the pipeline actions leave alone
not_strategy_vars == <<active_tasks, storages, config_symbols, handling, pc, exec_vars,
                       exchange, ledger, risk_vars, totals, verdict, risk_status,
                       replayed, replayed_ok, bus_vars, poll_vars, windows,
                       kline_store, task_index, candle_vars>>

(***************************************************************************)
(* The specifications.                                                     *)
(***************************************************************************)
\* The engine after start() and the spawning of the boot tasks in run_forever.
InitEngine ==
    /\ active_tasks = BootSymbols
    /\ storages = BootSymbols
    /\ config_symbols = BootSymbols
    /\ handling = Idle
    /\ pc = [s \in Symbols |-> IF s \in BootSymbols THEN "sleep" ELSE "none"]
    /\ signal = [s \in Symbols |-> "NONE"]
    /\ attempt = [s \in Symbols |-> 0]
    /\ response = [s \in Symbols |-> NoResponse]
    /\ order_status = [s \in Symbols |-> "NONE"]
    /\ trail = [s \in Symbols |-> <<>>]
    /\ ledger = <<>>
    /\ balance = InitialBalance
    /\ peak_balance = InitialBalance
    /\ current_drawdown = 0
    /\ daily_pnl = 0
    /\ daily_start_balance = InitialBalance
    /\ totals = <<>>
    /\ verdict = NoVerdict
    /\ risk_status = NoStatus
    /\ replayed = BootSymbols
    /\ replayed_ok = BootSymbols
    /\ InitStrategies
    /\ InitPolling

\* The bus when start() has set _running and waits for the first event.
InitBus ==
    /\ put_tasks = <<>>
    /\ event_queue = <<>>
    /\ bus_running = TRUE
    /\ loop_pc = "wait"
    /\ cur_event = NoEvent
    /\ cb_index = 0
    /\ in_progress = {}
    /\ published = <<>>
    /\ invoked = [h \in Handlers |-> <<>>]
    /\ raised = {}

Init == exchange = "uniform" /\ InitEngine /\ InitBus

Next ==
    \/ \E s \in Symbols :
        \/ PollWake(s)
        \/ PollFetched(s)
        \/ SpotBuyChecked(s)
        \/ SpotSellPosition(s)
        \/ OrderReturned(s)
        \/ BackoffDone(s)
        \/ SaveTrade(s)
        \/ CloseTrade(s)
        \/ UpdateBalance(s)
        \/ HandleAddSymbol(s) /\ UNCHANGED task_index
        \/ AddSymbolBootstrapped(s) /\ UNCHANGED task_index
        \/ HandleRemoveSymbol(s) /\ UNCHANGED task_index

Spec == Init /\ [][Next]_vars

NextBus ==
    \/ \E event_type \in EventTypes : Publish(event_type)
    \/ RunPutTask
    \/ LoopGet
    \/ LoopTimeout
    \/ \E outcome \in Outcomes : CallbackSync(outcome)
    \/ CallbackStart
    \/ \E outcome \in Outcomes : CallbackEnd(outcome)
    \/ Stop

SpecBus == Init /\ [][NextBus]_vars

\* The engine on the varied exchange.
InitTrade == exchange = "varied" /\ InitEngine /\ InitBus

\* The polling tasks and the executor; no hot-plug event is handled.
NextTrade ==
    \E s \in Symbols :
        \/ PollWake(s)
        \/ PollFetched(s)
        \/ SpotBuyChecked(s)
        \/ SpotSellPosition(s)
        \/ OrderReturned(s)
        \/ BackoffDone(s)
        \/ SaveTrade(s)
        \/ CloseTrade(s)
        \/ UpdateBalance(s)

SpecTrade == InitTrade /\ [][NextTrade]_vars

\* Ledgers the risk gate is examined on: no row, OPEN and CLOSED rows of one
\* symbol, OPEN rows of both.
RiskLedgers ==
    {<<>>,
     <<NewTrade("A", 1, 1)>>,
     <<NewTrade("B", 1, 1)>>,
     <<[NewTrade("A", 1, 1) EXCEPT !.status = "CLOSED", !.exit_price = 2, !.pnl = 1]>>,
     <<NewTrade("A", 1, 1), NewTrade("B", 2, 1)>>}

\* The risk gate after initialize(b0), for every b0 of StartBalances, every
\* value of the _daily_pnl field and every ledger of RiskLedgers; the
\* configured symbols are the boot list or both symbols.
InitRisk ==
    /\ active_tasks = BootSymbols
    /\ storages = BootSymbols
    /\ config_symbols \in {BootSymbols, Symbols}
    /\ handling = Idle
    /\ pc = [s \in Symbols |-> IF s \in BootSymbols THEN "sleep" ELSE "none"]
    /\ signal = [s \in Symbols |-> "NONE"]
    /\ attempt = [s \in Symbols |-> 0]
    /\ response = [s \in Symbols |-> NoResponse]
    /\ order_status = [s \in Symbols |-> "NONE"]
    /\ trail = [s \in Symbols |-> <<>>]
    /\ exchange = "uniform"
    /\ ledger \in RiskLedgers
    /\ daily_start_balance \in StartBalances
    /\ balance = daily_start_balance
    /\ peak_balance = daily_start_balance
    /\ current_drawdown = 0
    /\ daily_pnl \in DailyPnls
    /\ totals = <<>>
    /\ verdict = NoVerdict
    /\ risk_status = NoStatus
    /\ replayed = BootSymbols
    /\ replayed_ok = BootSymbols
    /\ InitStrategies
    /\ InitPolling
    /\ InitBus

NextRisk ==
    \/ \E total \in Totals : RiskUpdateBalance(total)
    \/ \E symbol \in Symbols, side \in {"BUY", "SELL"} : RiskCheckPreTrade(symbol, side)
    \/ RiskGetRiskStatus

SpecRisk == InitRisk /\ [][NextRisk]_vars

\* The strategy pipeline alone: generate_signals calls over every outcome of
\* the strategies, enable/disable between the calls.
NextStrategy ==
    \/ \E name \in Strategies, flag \in BOOLEAN :
           SetStrategyEnabled(name, flag) /\ UNCHANGED not_strategy_vars
    \/ GenerateSignalsCall /\ UNCHANGED not_strategy_vars
    \/ \E outcome \in SignalOutcomes : StrategyStep(outcome) /\ UNCHANGED not_strategy_vars
    \/ GenerateSignalsReturn /\ UNCHANGED not_strategy_vars

SpecStrategy == Init /\ [][NextStrategy]_vars

\* The engine on the varied exchange, whose bootstrap may return candles.
InitPoll == exchange = "varied" /\ InitEngine /\ InitBus

\* The polling loop in detail, the hot-plug handlers while the engine runs,
\* and the shutdown.
NextPoll ==
    \/ \E s \in Symbols :
        \/ SleepDone(s) /\ UNCHANGED candle_vars
        \/ CooldownDone(s) /\ UNCHANGED candle_vars
        \/ KlinesReturned(s) /\ UNCHANGED candle_vars
        \/ KlinesSaved(s) /\ UNCHANGED candle_vars
        \/ PipelineDone(s) /\ UNCHANGED candle_vars
        \/ BuyExecuted(s) /\ UNCHANGED candle_vars
        \/ AccountInfoServed(s) /\ UNCHANGED candle_vars
        \/ BalanceApplied(s) /\ UNCHANGED candle_vars
        \/ lifecycle = "running" /\ HandleAddSymbol(s) /\ UNCHANGED task_index
        \/ lifecycle = "running" /\ AddSymbolBootstrapped(s) /\ UNCHANGED task_index
        \/ lifecycle = "running" /\ HandleRemoveSymbol(s) /\ UNCHANGED task_index
        \/ TaskCancelled(s)
    \/ GroupAbort
    \/ Disconnect
    \/ DbClose

SpecPoll == InitPoll /\ [][NextPoll]_vars

InitCandle == exchange = "candles" /\ InitEngine /\ InitBus

\* The history of the candles: the step is one of the task of s, in which
\* get_klines has answered kline_time or which leaves latest as it is; the
\* candle _process_kline is called for is the last-seen one.
Recorded(s, kline_time) ==
    /\ latest' = [latest EXCEPT ![s] = kline_time]
    /\ processed' = IF pc[s] # "pipeline" /\ pc'[s] = "pipeline"
                    THEN [processed EXCEPT ![s] = last_kline_times'[s]]
                    ELSE processed

\* The polling loop of the boot tasks alone, on an exchange with two candles
\* and with the history of the candles fetched and processed: no hot-plug
\* event and no shutdown.
NextCandle ==
    \E s \in BootSymbols :
        \/ SleepDone(s) /\ Recorded(s, latest[s])
        \/ CooldownDone(s) /\ Recorded(s, latest[s])
        \/ \E kline_time \in CandleTimes \cup {0} :
              KlinesAnswered(s, kline_time) /\ Recorded(s, kline_time)
        \/ KlinesSaved(s) /\ Recorded(s, latest[s])
        \/ PipelineDone(s) /\ Recorded(s, latest[s])
        \/ BuyExecuted(s) /\ Recorded(s, latest[s])
        \/ AccountInfoServed(s) /\ Recorded(s, latest[s])
        \/ BalanceApplied(s) /\ Recorded(s, latest[s])

SpecCandle == InitCandle /\ [][NextCandle]_vars

\* The index of the task a step of a hot-plug handler creates:
\* "self._tg.create_task(self._kline_polling_task(symbol, len(self._active_tasks)))",
\* evaluated before the task is stored in _active_tasks.  The boot tasks
\* have the indexes of enumerate(config.trading.symbols).
TaskIndexed(s) ==
    task_index' = IF s \notin active_tasks /\ s \in active_tasks'
                  THEN [task_index EXCEPT ![s] = Cardinality(active_tasks)]
                  ELSE task_index

\* The hot-plug handlers with the index of every task they create; the only
\* specification that follows the indexes.
NextStagger ==
    \E s \in Symbols :
        \/ HandleAddSymbol(s) /\ TaskIndexed(s)
        \/ AddSymbolBootstrapped(s) /\ TaskIndexed(s)
        \/ HandleRemoveSymbol(s) /\ UNCHANGED task_index

SpecStagger == InitPoll /\ [][NextStagger]_vars

(***************************************************************************)
(* Properties of the engine, checked under Spec.                           *)
(***************************************************************************)
\* The symbols that have an OPEN Trade row.
OpenSymbols == {s \in Symbols : get_open_trades(s) # {}}

\* C1: in every reachable state the number of distinct symbols that have an
\* OPEN Trade row is at most max_active_trades (every BUY of the model goes
\* through _spot_buy and its check_pre_trade).
C1_OpenSymbolsWithinLimit == Cardinality(OpenSymbols) <= max_active_trades

\* C2: in every reachable state each symbol has at most one Trade row with
\* status OPEN.
C2_OneOpenTradePerSymbol ==
    \A s \in Symbols : Cardinality(get_open_trades(s)) <= 1

\* The task of s has an order the exchange accepted and has not yet written
\* the ledger for it.
OrderAccepted(s) ==
    \/ pc[s] = "create_order" /\ response[s].kind = "filled"
    \/ pc[s] \in {"save_trade", "close_trade"}

\* C3: a REMOVE_SYMBOL never ends a task that has an accepted order whose
\* ledger insert or close is still to come: the cancellation never takes
\* effect during an order placement.
C3_CancelNeverDuringPlacement ==
    [][\A s \in Symbols :
          (s \in active_tasks /\ s \notin active_tasks') => ~OrderAccepted(s)]_vars

\* C4: every step that inserts or updates a ledger row is the ledger write of
\* a task whose order reached FILLED; a call whose placement ended FAILED or
\* whose signal was dropped takes no such step.
C4_LedgerWriteOnlyAfterFilled ==
    [][ledger' # ledger =>
          \E s \in Symbols :
              /\ pc[s] \in {"save_trade", "close_trade"}
              /\ pc'[s] = "update_balance"
              /\ order_status[s] = "FILLED"]_vars

\* C4 witness: a placement has ended FAILED after a filled BUY of another
\* call, and the ledger holds the one row of that BUY.
C4_Witness ==
    \E s \in Symbols :
        /\ order_status[s] = "FAILED"
        /\ pc[s] = "update_balance"
        /\ Len(ledger) = 1

\* C5: a row is created OPEN, its only change is the one from OPEN to CLOSED
\* (symbol, entry price and quantity stay), a CLOSED row is never changed and
\* no row is deleted.
C5_LedgerOneDirectional ==
    [][/\ Len(ledger') >= Len(ledger)
       /\ \A i \in 1..Len(ledger') :
            IF i > Len(ledger)
            THEN ledger'[i].status = "OPEN"
            ELSE \/ ledger'[i] = ledger[i]
                 \/ /\ ledger[i].status = "OPEN"
                    /\ ledger'[i].status = "CLOSED"
                    /\ ledger'[i].symbol = ledger[i].symbol
                    /\ ledger'[i].entry_price = ledger[i].entry_price
                    /\ ledger'[i].quantity = ledger[i].quantity]_vars

\* C5 witness: a row has been closed and a later row of the same symbol is
\* open, after the first task of the symbol was removed.
C5_Witness ==
    \E i, j \in 1..Len(ledger) :
        /\ i < j
        /\ ledger[i].symbol = ledger[j].symbol
        /\ ledger[i].status = "CLOSED"
        /\ ledger[j].status = "OPEN"
        /\ ledger[i].symbol \notin active_tasks

\* C6 as stated: when no handler is in progress the active set is the replay
\* of the handled events with idempotent add and remove-if-present.
C6_ActiveSetIsReplay == handling = Idle => active_tasks = replayed

\* C6 amended: the active set is the replay of the handled events in which an
\* ADD_SYMBOL whose bootstrap raised is left out.
C6_ActiveSetIsReplayOfCompleted == handling = Idle => active_tasks = replayed_ok

\* C6 witness: the boot symbol was removed, the other one added, and an ADD
\* failed in its bootstrap on the way.
C6_Witness ==
    /\ handling = Idle
    /\ active_tasks = {"B"}
    /\ replayed_ok = {"B"}
    /\ "A" \in storages

\* C7: whenever no handler is in progress the configured symbol list holds
\* exactly the symbols that have an active task.
C7_ConfigMatchesActive == handling = Idle => config_symbols = active_tasks

(***************************************************************************)
(* Properties of the event bus, checked under SpecBus.                     *)
(***************************************************************************)
\* The events of one type among seq, in the order of seq.
OfType(seq, event_type) ==
    SelectSeq(seq, LAMBDA e : e.event_type = event_type)

IsPrefix(a, b) == Len(a) <= Len(b) /\ SubSeq(b, 1, Len(a)) = a

\* Every published event has been put on the queue, taken off it and
\* dispatched to the end.
Drained == put_tasks = <<>> /\ event_queue = <<>> /\ loop_pc = "wait"

\* C8: each handler is invoked with the events of its type in the order of the
\* publish() calls, none skipped, none twice: what it has been invoked with
\* is an initial part of the published events of its type, and all of them
\* once the running loop has drained the queue.
C8_DeliveredInPublishOrder ==
    \A h \in Handlers :
        /\ IsPrefix(invoked[h], OfType(published, HandlerType(h)))
        /\ Drained => invoked[h] = OfType(published, HandlerType(h))

\* C8 witness: three events of two types were published, and each handler has
\* been invoked with the events of its type.
C8_Witness ==
    /\ Len(invoked["handle_add_symbol"]) >= 2
    /\ Len(invoked["handle_remove_symbol"]) >= 1
    /\ published[1].event_type = "ADD_SYMBOL"
    /\ published[2].event_type = "REMOVE_SYMBOL"
    /\ published[3].event_type = "ADD_SYMBOL"

\* C9: at most one handler invocation is in progress, and while one is, the
\* loop is awaiting it: it neither calls the next handler for the event nor
\* takes the next event.
C9_OneHandlerAtATime ==
    /\ Cardinality(in_progress) <= 1
    /\ in_progress # {} =>
          /\ loop_pc = "await_callback"
          /\ in_progress = {[handler |-> CurrentCallback, n |-> cur_event.n]}

\* C9 witness: an asynchronous handler is suspended while the next event is
\* already on the queue.
C9_Witness ==
    /\ in_progress # {}
    /\ event_queue # <<>>

\* The events the loop has taken off the queue, and those among them whose
\* dispatch is over.
Dequeued == SubSeq(published, 1, Len(published) - Len(put_tasks) - Len(event_queue))

Dispatched ==
    IF loop_pc \in {"dispatch", "await_callback"}
    THEN SubSeq(Dequeued, 1, Len(Dequeued) - 1)
    ELSE Dequeued

\* C10: once a handler has raised for the n-th event, every subscriber of the
\* type of a dispatched event from the n-th on has been invoked with it (the
\* handlers after the raising one, and the handlers of the later events), and
\* the loop has returned only if stop() was called.
C10_RaiseDoesNotAbort ==
    \A inv \in raised :
        /\ \A k \in inv.n..Len(Dispatched) :
              \A h \in Handlers :
                  HandlerType(h) = published[k].event_type =>
                      \E i \in 1..Len(invoked[h]) : invoked[h][i] = published[k]
        /\ loop_pc = "stopped" => ~bus_running

\* C10 witness: the first handler of an ADD_SYMBOL event raised, the second
\* one was invoked with the event, and a later event was dispatched too.
C10_Witness ==
    \E inv \in raised :
        /\ inv.handler = "handle_add_symbol"
        /\ \E i \in 1..Len(invoked["add_listener"]) : invoked["add_listener"][i].n = inv.n
        /\ \E h \in Handlers : \E i \in 1..Len(invoked[h]) : invoked[h][i].n > inv.n
        /\ bus_running

(***************************************************************************)
(* The shutdown of the event bus, checked under SpecBus.                   *)
(***************************************************************************)
\* C11: once stop() has been called the loop starts no further wait on the
\* queue: a wait that was pending ends with an event (which is dispatched) or
\* with the timeout, and the check of the flag that follows ends the loop;
\* and a wait on an empty queue can always end by its timeout.
C11_StopEndsLoopAtNextCheck ==
    /\ [][~bus_running /\ loop_pc # "wait" => loop_pc' # "wait"]_vars
    /\ [][~bus_running /\ loop_pc = "wait" /\ loop_pc' # "wait" =>
            \/ loop_pc' = "stopped"
            \/ loop_pc' = "dispatch" /\ Len(event_queue') = Len(event_queue) - 1]_vars
    /\ [](loop_pc = "wait" /\ event_queue = <<>> => ENABLED LoopTimeout)

\* C11 witness: the loop has returned after stop() while an event it never
\* took is on the queue, and it dispatched an event before.
C11_Witness ==
    /\ loop_pc = "stopped"
    /\ ~bus_running
    /\ event_queue # <<>>
    /\ \E h \in Handlers : invoked[h] # <<>>

(***************************************************************************)
(* Properties of the executor, checked under Spec (C13: under SpecTrade,   *)
(* where the exchange rejects orders).                                     *)
(***************************************************************************)
\* What _place_order does when its first k calls fail: call, sleep 1, call,
\* sleep 2, ..., call.
RECURSIVE FailedCalls(_)
FailedCalls(k) ==
    IF k = 1 THEN <<CreateOrderCall>>
    ELSE FailedCalls(k - 1) \o <<Sleep(k - 1), CreateOrderCall>>

\* C12: a placement ends FAILED after exactly max_retries create_order calls,
\* with a sleep of k units after the k-th failed call for k < max_retries and
\* none after the last; the call then goes to the balance refresh with the
\* ledger as it was, and the task writes no row before its next sleep.
C12_FailedAfterMaxRetries ==
    [][\A s \in Symbols :
          /\ (order_status[s] # "FAILED" /\ order_status'[s] = "FAILED") =>
                /\ trail'[s] = FailedCalls(max_retries)
                /\ pc'[s] = "update_balance"
                /\ ledger' = ledger
          /\ (order_status[s] = "FAILED" /\ pc'[s] # pc[s]) =>
                /\ pc'[s] \in {"sleep", "none"}
                /\ ledger' = ledger]_vars

\* C12 witness: a placement whose three calls failed for a transient reason
\* has ended FAILED.
C12_Witness ==
    \E s \in Symbols :
        /\ order_status[s] = "FAILED"
        /\ response[s].kind = "error"
        /\ Len(trail[s]) = 2 * max_retries - 1

\* C13: when a create_order call comes back rejected, the placement ends at
\* once: the order is FAILED, no sleep and no further call are made.
C13_RejectionNotRetried ==
    [][\A s \in Symbols :
          (/\ pc[s] = "create_order"
           /\ response[s].kind = "rejected"
           /\ pc'[s] \notin {"create_order", "none"}) =>
                /\ order_status'[s] = "FAILED"
                /\ trail'[s] = trail[s]]_vars

\* C14: the first create_order call of a placement, BUY or SELL, is made by a
\* step in which check_pre_trade returned allowed for the signal.
C14_OrderAfterRiskGate ==
    [][\A s \in Symbols :
          (pc[s] \notin {"create_order", "backoff"} /\ pc'[s] = "create_order") =>
                /\ pc[s] = "check_pre_trade"
                /\ check_pre_trade(s, signal[s]) = "OK"]_vars

\* The symbol has no Trade row with status OPEN.
NoOpenRow(s) ==
    ~\E i \in 1..Len(ledger) : ledger[i].symbol = s /\ ledger[i].status = "OPEN"

\* C16: where the daily-loss and the drawdown checks pass, check_pre_trade
\* denies the BUY of a task exactly when the symbol has no OPEN row and the
\* symbols that have one are at least max_active_trades; a SELL is never
\* denied by the concurrency check.
C16_ConcurrencyDenial ==
    \A s \in Symbols :
        /\ (pc[s] = "check_pre_trade" /\ check_pre_trade(s, "BUY") \notin {"daily_loss", "drawdown"}) =>
              (check_pre_trade(s, "BUY") = "concurrency"
                 <=> /\ NoOpenRow(s)
                     /\ Cardinality({x \in Symbols : ~NoOpenRow(x)}) >= max_active_trades)
        /\ check_pre_trade(s, "SELL") # "concurrency"

\* C17: the step of _spot_buy in which check_pre_trade rejected the signal
\* sends no order and leaves the ledger, the balance snapshot and the risk
\* state as they were; execute_signal returns (the balance refresh of
\* _process_kline is next), nothing is raised.
C17_RejectedBuyHasNoEffect ==
    [][\A s \in Symbols :
          (/\ pc[s] = "check_pre_trade"
           /\ check_pre_trade(s, "BUY") # "OK"
           /\ pc'[s] \notin {"check_pre_trade", "none"}) =>
                /\ pc'[s] = "update_balance"
                /\ trail'[s] = <<>>
                /\ order_status'[s] = "NONE"
                /\ ledger' = ledger
                /\ risk_vars' = risk_vars]_vars

\* C17 witness: a BUY was rejected while the ledger holds a row: its call is
\* over, no order was made.
C17_Witness ==
    \E s \in Symbols :
        /\ signal[s] = "BUY"
        /\ pc[s] = "update_balance"
        /\ order_status[s] = "NONE"
        /\ trail[s] = <<>>
        /\ ledger # <<>>

\* C18: the step of _spot_sell that finds no OPEN row of the symbol sends no
\* order and leaves the ledger as it was.
C18_SellWithoutPositionDropped ==
    [][\A s \in Symbols :
          (/\ pc[s] = "get_position"
           /\ NoOpenRow(s)
           /\ pc'[s] \notin {"get_position", "none"}) =>
                /\ pc'[s] = "update_balance"
                /\ trail'[s] = <<>>
                /\ order_status'[s] = "NONE"
                /\ ledger' = ledger]_vars

\* C18 witness: a SELL was dropped for a symbol whose only row is CLOSED.
C18_Witness ==
    \E s \in Symbols :
        /\ signal[s] = "SELL"
        /\ pc[s] = "update_balance"
        /\ order_status[s] = "NONE"
        /\ NoOpenRow(s)
        /\ \E i \in 1..Len(ledger) : ledger[i].symbol = s

(***************************************************************************)
(* The round trip of a trade, checked under SpecTrade.                     *)
(***************************************************************************)
\* C19: the ledger write of a filled BUY appends an OPEN row with the fill
\* price P and the filled quantity Q; the ledger write of a filled SELL of
\* the position turns one OPEN row of the symbol into a CLOSED row with the
\* sell's average price P2 as exit price and pnl = (P2 - P) * Q, and changes
\* nothing else.
C19_RoundTripPnl ==
    [][\A s \in Symbols :
          /\ (pc[s] = "save_trade" /\ pc'[s] = "update_balance") =>
                ledger' = Append(ledger,
                                 [symbol |-> s, status |-> "OPEN",
                                  entry_price |-> response[s].average,
                                  quantity |-> response[s].filled,
                                  exit_price |-> 0, pnl |-> 0])
          /\ (pc[s] = "close_trade" /\ pc'[s] = "update_balance" /\ ~NoOpenRow(s)) =>
                \E i \in 1..Len(ledger) :
                    /\ ledger[i].symbol = s
                    /\ ledger[i].status = "OPEN"
                    /\ ledger' = [ledger EXCEPT ![i] =
                          [symbol |-> s, status |-> "CLOSED",
                           entry_price |-> ledger[i].entry_price,
                           quantity |-> ledger[i].quantity,
                           exit_price |-> response[s].average,
                           pnl |-> (response[s].average - ledger[i].entry_price)
                                      * ledger[i].quantity]]]_vars

\* C19 witness: a row bought at 2 with quantity 3 was closed at 1, pnl -3, and
\* one bought at 1 with quantity 2 was closed at 2, pnl 2.
C19_Witness ==
    /\ \E i \in 1..Len(ledger) :
          ledger[i] = [symbol |-> "A", status |-> "CLOSED", entry_price |-> 2,
                       quantity |-> 3, exit_price |-> 1, pnl |-> 0 - 3]
    /\ \E i \in 1..Len(ledger) :
          ledger[i] = [symbol |-> "A", status |-> "CLOSED", entry_price |-> 1,
                       quantity |-> 2, exit_price |-> 2, pnl |-> 2]

(***************************************************************************)
(* Properties of the risk gate, checked under SpecRisk.                    *)
(***************************************************************************)
\* The three checks, as the percentages of the risk rules.
DailyLossFails ==
    /\ daily_pnl < 0
    /\ daily_start_balance > 0
    /\ (0 - daily_pnl) * 100 >= max_daily_loss_percent * daily_start_balance

DrawdownFails == current_drawdown >= max_drawdown_percent

ConcurrencyFails(symbol, side) ==
    /\ side = "BUY"
    /\ symbol \notin get_all_active_positions
    /\ Cardinality(get_all_active_positions) >= max_active_trades

\* C15: a call of check_pre_trade that returns, returns the reason of the
\* first check that fails, in the order daily loss, drawdown, concurrency
\* (BUY only), and OK exactly when none fails; when the daily-loss and the
\* drawdown checks both fail the reason is the daily-loss one.
C15_FirstFailingCheck ==
    [][(verdict' # verdict /\ verdict'.reason # "ZeroDivisionError") =>
          verdict'.reason =
              IF DailyLossFails THEN "daily_loss"
              ELSE IF DrawdownFails THEN "drawdown"
              ELSE IF ConcurrencyFails(verdict'.symbol, verdict'.side) THEN "concurrency"
              ELSE "OK"]_vars

\* C15 witness: check_pre_trade answered with the daily-loss reason in a state
\* where the drawdown limit is reached too.
C15_Witness ==
    /\ verdict.reason = "daily_loss"
    /\ DailyLossFails
    /\ DrawdownFails

Max(a, b) == IF a >= b THEN a ELSE b

RECURSIVE MaxOfSeq(_, _)
MaxOfSeq(b0, seq) ==
    IF seq = <<>> THEN b0 ELSE Max(MaxOfSeq(b0, SubSeq(seq, 1, Len(seq) - 1)), seq[Len(seq)])

\* C20: after initialize(b0) and update_balance calls with the totals
\* t1..tn, the peak is max(b0, t1..tn) and, for n > 0 and a peak above 0, the
\* drawdown is the percentage (peak - tn) / peak * 100 (its integer part),
\* never negative;
\* after initialize(1000) and the totals 1200 and 900 the peak is 1200 and the
\* drawdown 25.
C20_PeakAndDrawdown ==
    /\ peak_balance = MaxOfSeq(daily_start_balance, totals)
    /\ current_drawdown >= 0
    /\ (totals # <<>> /\ peak_balance > 0) =>
          current_drawdown =
              ((MaxOfSeq(daily_start_balance, totals) - totals[Len(totals)]) * 100)
                  \div MaxOfSeq(daily_start_balance, totals)
    /\ (daily_start_balance = 1000 /\ totals = <<1200, 900>>) =>
          (peak_balance = 1200 /\ current_drawdown = 25)

\* C20 witness: initialize(1000), then the totals 1200 and 900.
C20_Witness ==
    /\ daily_start_balance = 1000
    /\ totals = <<1200, 900>>
    /\ current_drawdown = 25

\* The daily loss as the percentage lost relative to the day-start balance,
\* reaching 0.8 of its maximum: a loss is a negative daily pnl.
LossNearLimit ==
    /\ daily_pnl < 0
    /\ daily_start_balance > 0
    /\ (0 - daily_pnl) * 100 * 10 >= max_daily_loss_percent * 8 * daily_start_balance

DrawdownNearLimit == current_drawdown * 10 >= max_drawdown_percent * 8

LastOf(ids) == CHOOSE i \in ids : \A j \in ids : j <= i

\* C27: get_position(symbol) is none when the symbol has no OPEN row, and
\* otherwise the most recently opened OPEN row of the symbol.
C27_MostRecentOpenRow ==
    \A s \in Symbols :
        get_position(s) =
            IF get_open_trades(s) = {} THEN {} ELSE {LastOf(get_open_trades(s))}

(***************************************************************************)
(* Properties of the strategy pipeline, checked under SpecStrategy.        *)
(***************************************************************************)
\* The positions of gs_invoked at which the strategy was invoked.
InvocationsOf(n) == {i \in 1..Len(gs_invoked) : gs_invoked[i].strategy = n}

\* The positions of the returned list that hold a signal of the strategy.
ReturnedOf(n) == {i \in 1..Len(gs_signals) : gs_signals[i].strategy_name = n}

\* C28: when generate_signals returns, every strategy that was enabled at the
\* call has been invoked exactly once and no disabled one; a strategy that
\* raised, returned None or a signal of type NONE has no signal in the
\* returned list and its signal count is what it was, whatever the strategies
\* before it did; every other invoked strategy has exactly its signal in the
\* list and its signal count is one higher.
C28_GenerateSignals ==
    gs_pc = "returned" =>
        \A n \in Strategies :
            /\ Cardinality(InvocationsOf(n)) = IF n \in gs_enabled THEN 1 ELSE 0
            /\ \A i \in InvocationsOf(n) :
                  IF gs_invoked[i].outcome \in {"raise", "None", "NONE"}
                  THEN /\ ReturnedOf(n) = {}
                       /\ signal_count[n] = gs_count_before[n]
                  ELSE /\ Cardinality(ReturnedOf(n)) = 1
                       /\ \A j \in ReturnedOf(n) :
                             gs_signals[j].signal_type = gs_invoked[i].outcome
                       /\ signal_count[n] = gs_count_before[n] + 1
            /\ InvocationsOf(n) = {} =>
                  ReturnedOf(n) = {} /\ signal_count[n] = gs_count_before[n]

\* a call with a disabled strategy, in which one strategy raised and the
\* strategy after it returned a signal that is in the returned list
C28_Witness ==
    /\ gs_pc = "returned"
    /\ gs_enabled # Strategies
    /\ \E i \in 1..Len(gs_invoked) : \E j \in 1..Len(gs_invoked) :
          /\ i < j
          /\ gs_invoked[i].outcome = "raise"
          /\ gs_invoked[j].outcome = "BUY"
          /\ ReturnedOf(gs_invoked[j].strategy) # {}

(***************************************************************************)
(* Properties of the polling loop, the hot-plug handlers and the shutdown, *)
(* checked under SpecPoll.                                                 *)
(***************************************************************************)
\* The iteration of the task of s has logged an exception.
HasRaised(s) == trail[s] # <<>> /\ trail[s][1].op = "raised"

\* The exception was followed by the cool-down sleep.
CooledDown(s) ==
    /\ Len(trail[s]) = 2
    /\ trail[s][2].op = "sleep"
    /\ trail[s][2].arg = CoolDown

\* C23 as stated: whatever call of the iteration raised, the task waits the
\* fixed cool-down before its next iteration.
C23_CoolDownAfterEveryException ==
    \A s \in Symbols : HasRaised(s) => CooledDown(s)

\* C23, amended: an exception raised in an iteration ends no task: after one
\* of get_klines or add_klines the task is in the cool-down sleep, after one
\* of the pipeline, execute_signal or get_account_info it is logged and the
\* task is in the sleep that begins its next iteration, and no other task
\* has moved; from the cool-down the task goes to that sleep and from there
\* to the next fetch; a task ends only by cancellation (its symbol is
\* removed, or the task group is aborting).
C23_ExceptionEndsNoTask ==
    [][\A s \in Symbols :
          /\ (pc[s] # "none" /\ pc'[s] = "none") =>
                (s \notin active_tasks' \/ lifecycle = "aborting")
          /\ (HasRaised(s)' /\ ~HasRaised(s)) =>
                /\ lifecycle' = "running"
                /\ \A o \in Symbols \ {s} : pc'[o] = pc[o]
                /\ IF trail'[s][1].arg \in {"get_klines", "add_klines"}
                   THEN pc'[s] = "cooldown" /\ CooledDown(s)'
                   ELSE pc'[s] = "sleep" /\ Len(trail'[s]) = 1
          /\ (pc[s] = "cooldown" /\ pc'[s] # pc[s]) => pc'[s] \in {"sleep", "none"}
          /\ (pc[s] = "sleep" /\ pc'[s] # pc[s]) => pc'[s] \in {"get_klines", "none"}]_vars

\* an exception of the pipeline, the executor or the balance refresh was
\* logged, the task is in the sleep of its next iteration and the task of
\* the other symbol is in the middle of an iteration
C23_Witness ==
    \E s \in Symbols : \E o \in Symbols \ {s} :
        /\ HasRaised(s)
        /\ Len(trail[s]) = 1
        /\ pc[s] = "sleep"
        /\ lifecycle = "running"
        /\ pc[o] \in {"get_klines", "save_klines", "pipeline", "execute_signal"}

\* The step is the handling of REMOVE_SYMBOL(s) for an active s.
Removes(s) == s \in active_tasks /\ s \notin active_tasks'

\* C24: the handling of REMOVE_SYMBOL(s) ends the task of s and of no other
\* symbol: the task, the last-seen timestamp, the storage and the window of
\* every other symbol are unchanged, and so are the trade ledger (an OPEN row
\* of s stays OPEN) and the klines table.
C24_RemoveCancelsOnlyItsTask ==
    [][\A s \in Symbols :
          Removes(s) =>
              /\ pc'[s] = "none"
              /\ \A o \in Symbols \ {s} :
                    /\ pc'[o] = pc[o]
                    /\ (o \in active_tasks') = (o \in active_tasks)
                    /\ last_kline_times'[o] = last_kline_times[o]
                    /\ (o \in storages') = (o \in storages)
                    /\ windows'[o] = windows[o]
              /\ ledger' = ledger
              /\ kline_store' = kline_store]_vars

\* s has been removed while it had an OPEN row and a stored candle, and the
\* task of the other symbol is in the middle of an iteration with a candle in
\* its window
C24_Witness ==
    \E s \in Symbols : \E o \in Symbols \ {s} :
        /\ s \notin active_tasks
        /\ pc[s] = "none"
        /\ \E i \in 1..Len(ledger) : ledger[i].symbol = s /\ ledger[i].status = "OPEN"
        /\ <<s, 1>> \in kline_store
        /\ o \in active_tasks
        /\ pc[o] \in {"save_klines", "pipeline", "execute_signal", "update_balance"}
        /\ windows[o] # {}
        /\ last_kline_times[o] # 0

\* C25: when REMOVE_SYMBOL(s) has been handled the engine holds no in-memory
\* state of s: no task, no storage and window, no last-seen timestamp.
C25_NoStateAfterRemove ==
    [][\A s \in Symbols :
          Removes(s) =>
              /\ pc'[s] = "none"
              /\ s \notin storages'
              /\ windows'[s] = {}
              /\ last_kline_times'[s] = 0]_vars

\* C26: when the exchange connection has been released (and when the
\* database has been closed) no polling task is left that can take a step.
C26_TasksEndBeforeClose ==
    lifecycle \in {"disconnected", "stopped"} => \A s \in Symbols : pc[s] = "none"

\* the engine has stopped and both symbols had a task
C26_Witness == lifecycle = "stopped" /\ active_tasks = Symbols

\* C29: a task whose order of this iteration was FILLED enters its idle sleep
\* only by the step that applies a freshly fetched balance: the snapshot, the
\* peak and the drawdown are those of the reply the task held.
C29_RefreshAfterFill ==
    [][\A s \in Symbols :
          (pc[s] \notin {"sleep", "cooldown", "none"}
             /\ pc'[s] \in {"sleep", "cooldown"}
             /\ order_status'[s] = "FILLED") =>
              /\ pc[s] = "account_info"
              /\ balance' = account[s].total
              /\ snapshot_seq' = account[s].seq]_vars

\* C30: the balance snapshot is never replaced by the answer of an older
\* get_account_info call than the one it holds, and the total, the peak and
\* the drawdown are replaced together from one answer.
C30_NoLostBalanceUpdate ==
    [][/\ snapshot_seq' >= snapshot_seq
       /\ (balance' # balance \/ peak_balance' # peak_balance
              \/ current_drawdown' # current_drawdown) =>
             \E s \in Symbols :
                 /\ pc[s] = "account_info"
                 /\ balance' = account[s].total
                 /\ peak_balance' = NewPeak(account[s].total)
                 /\ current_drawdown' = NewDrawdown(account[s].total)]_vars

(***************************************************************************)
(* The realised pnl and the daily-loss rule, checked under SpecTrade.      *)
(***************************************************************************)
RECURSIVE ClosedPnl(_)
\* p1 + ... + pn: the pnl of the CLOSED rows among the first n rows.
ClosedPnl(n) ==
    IF n = 0 THEN 0
    ELSE ClosedPnl(n - 1) + (IF ledger[n].status = "CLOSED" THEN ledger[n].pnl ELSE 0)

\* C34: the risk gate's daily pnl is the sum of the pnl of the trades closed
\* since initialize.
C34_DailyPnlIsRealisedPnl == daily_pnl = ClosedPnl(Len(ledger))

OrderResultReturned(s) ==
    pc[s] = "create_order" /\ response[s].kind \in {"filled", "unreadable"}

\* C36: once a create_order call of a placement has returned a result, the
\* placement makes no further create_order call: it does not go to the sleep
\* before a next attempt, whether the fields of the result can be read or not.
C36_OneAcceptedOrder ==
    [][\A s \in Symbols :
          (OrderResultReturned(s) /\ pc'[s] # pc[s]) => pc'[s] # "backoff"]_vars

(***************************************************************************)
(* The open quantity of a symbol, checked under SpecTrade.                 *)
(***************************************************************************)
RECURSIVE OpenQuantity(_, _, _)
\* The sum of the quantities of the OPEN rows of symbol among the first n
\* rows of the table rows.
OpenQuantity(rows, symbol, n) ==
    IF n = 0 THEN 0
    ELSE OpenQuantity(rows, symbol, n - 1)
           + (IF rows[n].symbol = symbol /\ rows[n].status = "OPEN"
              THEN rows[n].quantity ELSE 0)

\* C38: the ledger write of a filled SELL that sold q, not more than the
\* quantity held, lowers the sum of the quantities of the symbol's OPEN rows
\* by q (the ledger write of a filled BUY raises it by the filled quantity).
C38_OpenQuantityIsBoughtMinusSold ==
    [][\A s \in Symbols :
          /\ (pc[s] = "save_trade" /\ pc'[s] = "update_balance") =>
                OpenQuantity(ledger', s, Len(ledger'))
                    = OpenQuantity(ledger, s, Len(ledger)) + response[s].filled
          /\ (pc[s] = "close_trade" /\ pc'[s] = "update_balance"
                /\ response[s].filled <= OpenQuantity(ledger, s, Len(ledger))) =>
                OpenQuantity(ledger', s, Len(ledger'))
                    = OpenQuantity(ledger, s, Len(ledger)) - response[s].filled]_vars

(***************************************************************************)
(* Bootstrap before polling, checked under Spec.                           *)
(***************************************************************************)
\* C32: a step that spawns the polling task of s is the step in which the
\* bootstrap awaited by the ADD_SYMBOL(s) handler completes successfully; the
\* step in which the bootstrap fails spawns no task.
C32_SpawnAfterBootstrap ==
    [][\A s \in Symbols :
          /\ (s \notin active_tasks /\ s \in active_tasks') =>
                handling = [type |-> "ADD_SYMBOL", symbol |-> s]
          /\ (handling = [type |-> "ADD_SYMBOL", symbol |-> s]
                /\ handling' = Idle /\ s \notin replayed_ok') =>
                s \notin active_tasks']_vars

(***************************************************************************)
(* One polling task per symbol, checked under SpecPoll.                    *)
(***************************************************************************)
\* The awaits from which an iteration of the polling loop goes back to the
\* sleep at the top of the loop (the cool-down after an exception is one).
IterationEnds ==
    {"get_klines", "pipeline", "execute_signal", "update_balance", "account_info", "cooldown"}

\* C33: a symbol has a task that can take a step exactly while it is
\* registered in _active_tasks.  A cancelled task takes no further step: the
\* symbol has a running task again only by a step that registers a new one,
\* for a symbol that had none.  The handling of ADD_SYMBOL(s) for an active s
\* starts no task: the task of s is at its first sleep only when it was
\* spawned for an inactive s or has come to the end of an iteration.
C33_OneTaskPerSymbol ==
    [][\A s \in Symbols :
          /\ lifecycle' = "running" => ((pc'[s] # "none") <=> (s \in active_tasks'))
          /\ (pc[s] = "none" /\ pc'[s] # "none") =>
                /\ pc'[s] = "sleep"
                /\ s \notin active_tasks
                /\ s \in active_tasks'
          /\ (pc[s] \notin {"none", "sleep"} /\ pc'[s] = "sleep") =>
                /\ pc[s] \in IterationEnds
                /\ active_tasks' = active_tasks
                /\ handling' = handling]_vars

\* A has been removed and added again (its window is that of a new storage
\* while the last-seen timestamp is the one its earlier task left) and its
\* new task awaits get_klines, while ADD_SYMBOL(A) was replayed and B runs.
C33_Witness ==
    /\ lifecycle = "running"
    /\ active_tasks = Symbols
    /\ last_kline_times["A"] # 0
    /\ windows["A"] = {}
    /\ pc["A"] = "get_klines"
    /\ pc["B"] = "execute_signal"

(***************************************************************************)
(* The stagger indexes, checked under SpecStagger.                         *)
(***************************************************************************)
\* the sleep after the interval boundary: 1.5 + (index * 0.2), in tenths
PollingOffset(index) == 15 + index * 2

\* C39: no two active tasks have the same stagger index, and hence none the
\* same polling offset.
C39_DistinctStaggerIndex ==
    \A s \in active_tasks : \A o \in active_tasks \ {s} :
        /\ task_index[s] # task_index[o]
        /\ PollingOffset(task_index[s]) # PollingOffset(task_index[o])

(***************************************************************************)
(* New candles and seen candles, checked under SpecCandle.                 *)
(***************************************************************************)
\* The step is the return of get_klines to the task of s without an exception.
Fetched(s) == pc[s] = "get_klines" /\ pc'[s] \notin {"get_klines", "cooldown", "none"}

C35_SeenMeansProcessed ==
    [][\A s \in Symbols :
          (Fetched(s) /\ latest'[s] # 0 /\ latest'[s] = last_kline_times[s]) =>
              processed[s] = latest'[s]]_vars

=============================================================================
